---------------------------- MODULE Spec2Model ----------------------------
(***************************************************************************)
(* Model of the chat/message synchronisation engine of the ChatApp         *)
(* repository: the Express routes of backend/routes/chat.js, the Socket.IO *)
(* handlers of server.js, the Chat and Message schemas, and the paging     *)
(* loop of the frontend's Chat component.                                  *)
(*                                                                         *)
(* Every async handler is cut at its awaits: one action per resumption.    *)
(* Everything between two awaits runs in one action, as Node runs it.      *)
(***************************************************************************)
EXTENDS Integers, Sequences, FiniteSets, TLC

VARIABLES
    chats,      \* the Chat collection: chat id -> document
    messages,   \* the Message collection: message id -> document
    nextChatId, \* the next _id the store gives a Chat
    nextMsgId,  \* the next _id the store gives a Message
    now,        \* Date.now(), in milliseconds
    h,          \* the handlers in flight: slot -> request, position and locals
    events,     \* what io.to(room).emit / socket.emit have sent, in order
    ops,        \* how many requests have been started
    pager,      \* a client paging backward through one chat
    tie,        \* how the store orders documents of equal createdAt
    rooms,      \* Socket.IO rooms: connection -> the rooms it has joined
    written,    \* history: the writes the store has applied to messages
    activeUsers, \* the presence registry: socket -> user id
    client      \* a Chat component that has one chat open

vars == <<chats, messages, nextChatId, nextMsgId, now, h, events, ops, pager, tie, rooms, written, activeUsers, client>>

(***************************************************************************)
(* Bounds of the model.                                                    *)
(***************************************************************************)
MaxProcs == 2
MaxOps == 3
MaxTicks == 1
MaxLimit == 2
MaxConns == 2

Procs == 1..MaxProcs
\* The socket connections the server may hold.
Conns == 1..MaxConns
\* A socket after io.on('connection'): connected, in no chat room.
Connected == [up |-> TRUE, joined |-> {}]

(***************************************************************************)
(* Values.                                                                 *)
(***************************************************************************)
\* User ids in the order String.prototype.sort gives them.
UserOrder == <<"alice", "bob", "carol">>
Users == {UserOrder[i] : i \in 1..Len(UserOrder)}
NoUser == ""          \* a missing (undefined) user id: falsy in JavaScript
NoChat == 0           \* a missing chat id / a findById that found nothing
NoMsg == 0            \* null in lastMessage / a findById that found nothing

\* Text is a sequence of characters; Undefined stands for a missing field.
Undefined == <<"undefined">>
Photo == <<"P", "h", "o", "t", "o">>
IsSpace(ch) == ch = " "

\* An uploaded file / a stored image / a data URL: what the code reads of it.
\* enc tells the encodings apart: an uploaded "file", a stored "buffer", a
\* "dataurl" string.
NoImage == [has |-> FALSE, enc |-> "", ext |-> "", contentType |-> "", big |-> FALSE]
PngFile == [has |-> TRUE, enc |-> "file", ext |-> "png", contentType |-> "image/png",
            big |-> FALSE]
PngUrl == [has |-> TRUE, enc |-> "dataurl", ext |-> "", contentType |-> "image/png",
           big |-> FALSE]

\* More uploads: a png above 5 MB, a bmp named .png, a bmp, and data URLs
\* of a bmp and of a png above 5 MB.
BigPngFile == [PngFile EXCEPT !.big = TRUE]
BmpAsPngFile == [PngFile EXCEPT !.contentType = "image/bmp"]
BmpFile == [PngFile EXCEPT !.ext = "bmp", !.contentType = "image/bmp"]
BmpUrl == [PngUrl EXCEPT !.contentType = "image/bmp"]
BigPngUrl == [PngUrl EXCEPT !.big = TRUE]

NoDoc == [id |-> NoMsg, chat |-> NoChat, sender |-> NoUser, text |-> Undefined,
          image |-> NoImage, createdAt |-> 0]
NoChatDoc == [id |-> NoChat, lastMessage |-> NoMsg, updatedAt |-> 0]
NoBody == [id |-> 0, sender |-> NoUser, text |-> Undefined, image |-> NoImage,
           createdAt |-> 0, edited |-> FALSE]

Idle == [op |-> "idle", pc |-> "idle", chatId |-> NoChat, userId |-> NoUser,
         userId2 |-> NoUser, text |-> Undefined, image |-> NoImage,
         msgId |-> NoMsg, status |-> 0, doc |-> NoDoc, chatDoc |-> NoChatDoc,
         dirty |-> FALSE, body |-> NoBody,
         seq |-> 0,            \* history: the request's ordinal
         ownLast |-> FALSE]    \* history: a delete by the sender of a lastMessage

Free(p) == h[p].pc \in {"idle", "done"}
Quiescent == \A p \in Procs : Free(p)

(***************************************************************************)
(* The Chat collection.                                                    *)
(***************************************************************************)
Rank(u) == CHOOSE i \in 1..Len(UserOrder) : UserOrder[i] = u

\* [userId1, userId2].map(id => id.toString()).sort()
SortedPair(u1, u2) == IF Rank(u1) <= Rank(u2) THEN <<u1, u2>> ELSE <<u2, u1>>

Members(c) == {chats[c].participants[i] : i \in 1..Len(chats[c].participants)}

\* A faulty variant, for comparison: a lookup that compares the array as given, in order.
FindChatInOrder(u1, u2) ==
    {c \in DOMAIN chats : chats[c].participants = <<u1, u2>>}

\* Chat.findOne({ participants: { $all: [userId1, userId2], $size: 2 } })
FindChatByParticipants(u1, u2) ==
    {c \in DOMAIN chats :
        /\ {u1, u2} \subseteq Members(c)
        /\ Len(chats[c].participants) = 2}

\* ChatSchema.path('participants').validate
ValidParticipants(v) ==
    /\ Len(v) = 2
    /\ Cardinality({v[i] : i \in 1..Len(v)}) = 2

\* A faulty variant, for comparison: a chat record that keeps one participant.
NewChatOfOne(ps) == [participants |-> <<ps[1]>>, lastMessage |-> NoMsg,
                     createdAt |-> now, updatedAt |-> now]

NewChat(ps) == [participants |-> ps, lastMessage |-> NoMsg,
                createdAt |-> now, updatedAt |-> now]

(***************************************************************************)
(* POST /create-or-get                                                     *)
(***************************************************************************)
\* A faulty variant, for comparison: no pair counts as a chat with oneself.
SelfChatNever(u1, u2) == FALSE

\* participants[0] === participants[1]
SelfChat(u1, u2) == SortedPair(u1, u2)[1] = SortedPair(u1, u2)[2]

\* The request arrives; the handler runs up to its first await.
CogStart(p, u1, u2) ==
    /\ Free(p)
    /\ ops' = ops + 1
    /\ LET req == [Idle EXCEPT !.op = "cog", !.seq = ops + 1, !.userId = u1,
                               !.userId2 = u2]
       IN  IF u1 = NoUser \/ u2 = NoUser
           THEN h' = [h EXCEPT ![p] = [req EXCEPT !.pc = "done", !.status = 400]]
           ELSE IF SelfChat(u1, u2)
           THEN h' = [h EXCEPT ![p] = [req EXCEPT !.pc = "done", !.status = 400]]
           ELSE h' = [h EXCEPT ![p] = [req EXCEPT !.pc = "find"]]
    /\ UNCHANGED <<chats, messages, nextChatId, nextMsgId, now, events, pager, tie, rooms, written, activeUsers, client>>

\* Chat.findOne resolves: respond with the chat found, or go on to create.
CogFind(p) ==
    /\ h[p].op = "cog" /\ h[p].pc = "find"
    /\ LET found == FindChatByParticipants(h[p].userId, h[p].userId2)
       IN  IF found = {}
           THEN h' = [h EXCEPT ![p].pc = "create"]
           ELSE \E c \in found :
                    h' = [h EXCEPT ![p].pc = "done", ![p].status = 200,
                                   ![p].chatId = c]
    /\ UNCHANGED <<chats, messages, nextChatId, nextMsgId, now, events, ops, pager, tie, rooms, written, activeUsers, client>>

\* Chat.create({ participants }) resolves; the response carries the new chat.
CogCreate(p) ==
    /\ h[p].op = "cog" /\ h[p].pc = "create"
    /\ LET ps == SortedPair(h[p].userId, h[p].userId2)
       IN  IF ValidParticipants(ps)
           THEN /\ chats' = [c \in DOMAIN chats \cup {nextChatId} |->
                                IF c = nextChatId THEN NewChat(ps) ELSE chats[c]]
                /\ nextChatId' = nextChatId + 1
                /\ h' = [h EXCEPT ![p].pc = "done", ![p].status = 200,
                                  ![p].chatId = nextChatId]
           ELSE /\ h' = [h EXCEPT ![p].pc = "done", ![p].status = 500]
                /\ UNCHANGED <<chats, nextChatId>>
    /\ UNCHANGED <<messages, nextMsgId, now, events, ops, pager, tie, rooms, written, activeUsers, client>>

\* The Chat component before it is mounted: no socket, an empty message
\* list, no page request in flight, no event received.
NoClient == [conn |-> 0, list |-> <<>>, fetch |-> "none", resp |-> <<>>, seen |-> 0]

NoPager == [chatId |-> NoChat, limit |-> 0, page |-> 0, pages |-> <<>>,
            hasMore |-> TRUE, snapIds |-> {}, snapNext |-> 0]

InitEmpty ==
    /\ chats = <<>>
    /\ messages = <<>>
    /\ nextChatId = 1
    /\ nextMsgId = 1
    /\ now = 0
    /\ h = [p \in Procs |-> Idle]
    /\ events = <<>>
    /\ ops = 0
    /\ pager = NoPager
    /\ tie \in {"asc", "desc"}
    /\ rooms = [k \in Conns |-> Connected]
    /\ written = {}
    /\ activeUsers = <<>>
    /\ client = NoClient

\* Requests to /create-or-get, handlers interleaved at their awaits.
NextResolve ==
    \/ /\ ops < MaxOps
       /\ \E p \in Procs, u1, u2 \in Users \cup {NoUser} : CogStart(p, u1, u2)
    \/ \E p \in Procs : CogFind(p)
    \/ \E p \in Procs : CogCreate(p)

SpecResolve == InitEmpty /\ [][NextResolve]_vars

\* Requests to /create-or-get, each answered before the next one arrives.
NextResolveSeq ==
    \/ /\ Quiescent /\ ops < MaxOps
       /\ \E p \in Procs, u1, u2 \in Users \cup {NoUser} : CogStart(p, u1, u2)
    \/ \E p \in Procs : CogFind(p)
    \/ \E p \in Procs : CogCreate(p)

SpecResolveSeq == InitEmpty /\ [][NextResolveSeq]_vars


(***************************************************************************)
(* Text, images and the Message collection.                                *)
(***************************************************************************)
RECURSIVE TrimLeft(_)
TrimLeft(s) == IF s # <<>> /\ IsSpace(Head(s)) THEN TrimLeft(Tail(s)) ELSE s

RECURSIVE TrimRight(_)
TrimRight(s) ==
    IF s # <<>> /\ IsSpace(s[Len(s)]) THEN TrimRight(SubSeq(s, 1, Len(s) - 1)) ELSE s

\* String.prototype.trim
Trim(s) == TrimRight(TrimLeft(s))

\* A faulty variant, for comparison: the text taken as it comes.
NotTrimmed(t) == t

\* text?.trim()
OptTrim(t) == IF t = Undefined THEN Undefined ELSE Trim(t)

\* JavaScript's falsy strings: undefined and ''.
Falsy(t) == t = Undefined \/ t = <<>>

\* /\.(jpg|jpeg|png|gif|webp)$/i on file.originalname
AllowedExt == {"jpg", "jpeg", "png", "gif", "webp"}

\* MessageSchema.image.contentType enum
MimeEnum == {"image/jpeg", "image/png", "image/gif", "image/webp"}

\* A faulty variant, for comparison: multer without filter and limit.
UploadAcceptedAll(f) == TRUE

\* multer: fileFilter and limits.fileSize
UploadAccepted(f) == f.has => (f.ext \in AllowedExt /\ ~f.big)

\* { data: req.file.buffer, contentType: req.file.mimetype }
FileToBuffer(f) == [has |-> TRUE, enc |-> "buffer", ext |-> "",
                    contentType |-> f.contentType, big |-> f.big]

\* formatImage: Buffer -> data URL, null without data
formatImage(image) ==
    IF ~image.has THEN NoImage
    ELSE [has |-> TRUE, enc |-> "dataurl", ext |-> "",
          contentType |-> image.contentType, big |-> image.big]

\* MessageSchema's validation at Message.create
ValidMessage(d) ==
    /\ d.chat # NoChat
    /\ d.sender # NoUser
    /\ d.image.has => d.image.contentType \in MimeEnum

MsgIds == DOMAIN messages
IdsIn(c) == {m \in MsgIds : messages[m].chat = c}

\* The collection with document d inserted under the next _id, createdAt
\* defaulting to Date.now.
Inserted(d) ==
    [m \in MsgIds \cup {nextMsgId} |->
        IF m = nextMsgId
        THEN [d EXCEPT !.id = nextMsgId, !.createdAt = now]
        ELSE messages[m]]

\* A faulty variant, for comparison: a deleteOne that removes nothing.
RemovedNothing(m) == messages

\* The collection without document m.
Removed(m) == [x \in MsgIds \ {m} |-> messages[x]]

\* Chat.findByIdAndUpdate(chatId, { updatedAt: new Date(), lastMessage })
\* on a missing chat updates nothing.
ChatUpdated(c, last) ==
    IF c \in DOMAIN chats
    THEN [chats EXCEPT ![c].lastMessage = last, ![c].updatedAt = now]
    ELSE chats

\* a comes before b in .sort({ createdAt: -1 }); equal createdAt fall in the
\* store's order.
Before(a, b) ==
    \/ messages[a].createdAt > messages[b].createdAt
    \/ /\ messages[a].createdAt = messages[b].createdAt
       /\ IF tie = "asc" THEN a < b ELSE a > b

\* Message.find({ chat }).sort({ createdAt: -1 }), as a sequence of ids
NewestFirst(c) ==
    [i \in 1..Cardinality(IdsIn(c)) |->
        CHOOSE a \in IdsIn(c) :
            Cardinality({b \in IdsIn(c) : Before(b, a)}) = i - 1]

\* A faulty variant, for comparison: the chat's pointer is recomputed as the oldest remaining.
PreviousOldest(c) ==
    IF IdsIn(c) = {} THEN NoMsg ELSE NewestFirst(c)[Cardinality(IdsIn(c))]

\* Message.findOne({ chat }).sort({ createdAt: -1 })?._id || null
Previous(c) == IF IdsIn(c) = {} THEN NoMsg ELSE NewestFirst(c)[1]

\* The connections that are in a room.
InRoom(room) == {k \in Conns : rooms[k].up /\ room \in rooms[k].joined}

\* One write the store has applied.
Write(kind, id, text) == [kind |-> kind, id |-> id, text |-> text]

\* io.to(room).emit(type, body): the event goes to the connections that are
\* in the room now. The socket handler's socket.emit('error') goes to the
\* requesting socket alone; it is logged with no room and no room member.
Emit(type, room, body) ==
    Append(events, [type |-> type, room |-> room, body |-> body,
                    to |-> InRoom(room)])

\* populate('sender', 'username avatar'): the schema's sender is a String with
\* no ref, so the path stays the id string.
Populated(sender) == sender

(***************************************************************************)
(* POST /send-message                                                      *)
(***************************************************************************)
\* A faulty variant, for comparison: the route without its participant check.
IsParticipantAlways(c, s) == TRUE

\* chat.participants.map(p => p.toString()).includes(senderId)
IsParticipant(c, s) == s \in Members(c)

\* messageData as the route builds it from the body and the uploaded file
MessageData(c, s, t, f) ==
    [id |-> NoMsg, chat |-> c, sender |-> s, createdAt |-> 0,
     text |-> IF f.has /\ Falsy(OptTrim(t)) THEN Photo ELSE OptTrim(t),
     image |-> IF f.has THEN FileToBuffer(f) ELSE NoImage]

\* messageForClient of the route
ClientMessage(d) ==
    [id |-> d.id, sender |-> Populated(d.sender), text |-> d.text,
     image |-> formatImage(d.image), createdAt |-> d.createdAt, edited |-> FALSE]

\* multer runs, then the handler up to its first await (Chat.findById).
SendStart(p, c, s, t, f) ==
    /\ Free(p)
    /\ ops' = ops + 1
    /\ LET req == [Idle EXCEPT !.op = "send", !.seq = ops + 1, !.chatId = c,
                               !.userId = s, !.text = t, !.image = f]
       IN  IF ~UploadAccepted(f)
           THEN h' = [h EXCEPT ![p] = [req EXCEPT !.pc = "done", !.status = 500]]
           ELSE IF c = NoChat \/ s = NoUser
           THEN h' = [h EXCEPT ![p] = [req EXCEPT !.pc = "done", !.status = 400]]
           ELSE h' = [h EXCEPT ![p] = [req EXCEPT !.pc = "findChat"]]
    /\ UNCHANGED <<chats, messages, nextChatId, nextMsgId, now, events, pager, tie, rooms, written, activeUsers, client>>

\* Chat.findById resolves: 404, 403, or messageData is built and
\* Message.create is called.
SendFindChat(p) ==
    /\ h[p].op = "send" /\ h[p].pc = "findChat"
    /\ IF h[p].chatId \notin DOMAIN chats
       THEN h' = [h EXCEPT ![p].pc = "done", ![p].status = 404]
       ELSE IF ~IsParticipant(h[p].chatId, h[p].userId)
       THEN h' = [h EXCEPT ![p].pc = "done", ![p].status = 403]
       ELSE h' = [h EXCEPT ![p].pc = "create",
                           ![p].doc = MessageData(h[p].chatId, h[p].userId,
                                                  h[p].text, h[p].image)]
    /\ UNCHANGED <<chats, messages, nextChatId, nextMsgId, now, events, ops, pager, tie, rooms, written, activeUsers, client>>

\* Message.create resolves (or rejects: the catch answers 500).
SendCreate(p) ==
    /\ h[p].op = "send" /\ h[p].pc = "create"
    /\ IF ValidMessage(h[p].doc)
       THEN /\ messages' = Inserted(h[p].doc)
            /\ nextMsgId' = nextMsgId + 1
            /\ written' = written \cup {Write("create", nextMsgId, h[p].doc.text)}
            /\ h' = [h EXCEPT ![p].pc = "updateChat", ![p].msgId = nextMsgId,
                              ![p].doc = Inserted(h[p].doc)[nextMsgId]]
       ELSE /\ h' = [h EXCEPT ![p].pc = "done", ![p].status = 500]
            /\ UNCHANGED <<messages, nextMsgId, written>>
    /\ UNCHANGED <<chats, nextChatId, now, events, ops, pager, tie, rooms, activeUsers, client>>

\* Chat.findByIdAndUpdate resolves.
SendUpdateChat(p) ==
    /\ h[p].op = "send" /\ h[p].pc = "updateChat"
    /\ chats' = ChatUpdated(h[p].chatId, h[p].msgId)
    /\ h' = [h EXCEPT ![p].pc = "populate"]
    /\ UNCHANGED <<messages, nextChatId, nextMsgId, now, events, ops, pager, tie, rooms, written, activeUsers, client>>

\* message.populate resolves: res.json, then the broadcast to the room.
SendRespond(p) ==
    /\ h[p].op = "send" /\ h[p].pc = "populate"
    /\ h' = [h EXCEPT ![p].pc = "done", ![p].status = 200,
                      ![p].body = ClientMessage(h[p].doc)]
    /\ events' = Emit("message", h[p].chatId, ClientMessage(h[p].doc))
    /\ UNCHANGED <<chats, messages, nextChatId, nextMsgId, now, ops, pager, tie, rooms, written, activeUsers, client>>

(***************************************************************************)
(* socket.on('send-message')                                               *)
(***************************************************************************)
\* image.match(/data:(image\/[a-z]+);/) finds a content type
UrlMimeMatches(img) == img.contentType \in MimeEnum \cup {"image/bmp"}

\* Buffer.from(image.split(',')[1], 'base64') with the matched content type
UrlToBuffer(img) == [has |-> TRUE, enc |-> "buffer", ext |-> "",
                     contentType |-> img.contentType, big |-> img.big]

\* The document the socket handler hands to Message.create
SocketMessageData(c, s, t, img) ==
    [id |-> NoMsg, chat |-> c, sender |-> s, createdAt |-> 0,
     text |-> IF Falsy(t) THEN (IF img.has THEN Photo ELSE <<>>) ELSE t,
     image |-> IF img.has THEN UrlToBuffer(img) ELSE NoImage]

\* message.sender._id exists: only a populated document has an _id, an id
\* string has none and ._id.toString() throws.
HasId(sender) == FALSE

\* messageForClient of the socket handler
SocketClientMessage(d, img) ==
    [id |-> d.id, sender |-> d.sender, text |-> d.text,
     image |-> img, createdAt |-> d.createdAt, edited |-> FALSE]

\* new Server(server, { cors }) sets no maxHttpBufferSize: the transport
\* takes packets up to Socket.IO's default of 1 MB and closes the connection
\* on a larger one, so an image above 5 MB never reaches a handler.
SocketAccepts(img) == ~img.big

\* The event arrives; the arguments of Message.create are evaluated.
SockStart(p, c, s, t, img) ==
    /\ Free(p)
    /\ ops' = ops + 1
    /\ LET req == [Idle EXCEPT !.op = "sock", !.seq = ops + 1, !.chatId = c,
                               !.userId = s, !.text = t, !.image = img]
       IN  IF img.has /\ ~UrlMimeMatches(img)
           THEN /\ h' = [h EXCEPT ![p] = [req EXCEPT !.pc = "done"]]
                /\ events' = Emit("error", NoChat, NoBody)
           ELSE /\ h' = [h EXCEPT ![p] = [req EXCEPT !.pc = "create",
                            !.doc = SocketMessageData(c, s, t, img)]]
                /\ UNCHANGED events
    /\ UNCHANGED <<chats, messages, nextChatId, nextMsgId, now, pager, tie, rooms, written, activeUsers, client>>

\* Message.create resolves, or rejects and the catch emits 'error'.
SockCreate(p) ==
    /\ h[p].op = "sock" /\ h[p].pc = "create"
    /\ IF ValidMessage(h[p].doc)
       THEN /\ messages' = Inserted(h[p].doc)
            /\ nextMsgId' = nextMsgId + 1
            /\ written' = written \cup {Write("create", nextMsgId, h[p].doc.text)}
            /\ h' = [h EXCEPT ![p].pc = "populate", ![p].msgId = nextMsgId,
                              ![p].doc = Inserted(h[p].doc)[nextMsgId]]
            /\ UNCHANGED events
       ELSE /\ h' = [h EXCEPT ![p].pc = "done"]
            /\ events' = Emit("error", NoChat, NoBody)
            /\ UNCHANGED <<messages, nextMsgId, written>>
    /\ UNCHANGED <<chats, nextChatId, now, ops, pager, tie, rooms, activeUsers, client>>

\* message.populate resolves; Chat.findByIdAndUpdate is called.
SockPopulate(p) ==
    /\ h[p].op = "sock" /\ h[p].pc = "populate"
    /\ h' = [h EXCEPT ![p].pc = "updateChat",
                      ![p].doc = [h[p].doc EXCEPT !.sender = Populated(h[p].doc.sender)]]
    /\ UNCHANGED <<chats, messages, nextChatId, nextMsgId, now, events, ops, pager, tie, rooms, written, activeUsers, client>>

\* Chat.findByIdAndUpdate resolves; the message is formatted and broadcast,
\* or formatting throws and the catch emits 'error' to the socket.
SockUpdateChat(p) ==
    /\ h[p].op = "sock" /\ h[p].pc = "updateChat"
    /\ chats' = ChatUpdated(h[p].chatId, h[p].msgId)
    /\ IF HasId(h[p].doc.sender)
       THEN /\ events' = Emit("message", h[p].chatId,
                              SocketClientMessage(h[p].doc, h[p].image))
            /\ h' = [h EXCEPT ![p].pc = "done",
                        ![p].body = SocketClientMessage(h[p].doc, h[p].image)]
       ELSE /\ events' = Emit("error", NoChat, NoBody)
            /\ h' = [h EXCEPT ![p].pc = "done"]
    /\ UNCHANGED <<messages, nextChatId, nextMsgId, now, ops, pager, tie, rooms, written, activeUsers, client>>

(***************************************************************************)
(* DELETE /message/:messageId                                              *)
(***************************************************************************)
DeletedBody(m) == [NoBody EXCEPT !.id = m]

\* A faulty variant, for comparison: anybody may delete.
MayDeleteAnybody(m, u) == TRUE

\* message.sender.toString() === userId
MayDelete(m, u) == messages[m].sender = u

\* A faulty variant, for comparison: every delete recomputes the pointer.
PointsAtAny(c, m) == TRUE

\* chat.lastMessage && chat.lastMessage.toString() === messageId
PointsAt(c, m) == chats[c].lastMessage # NoMsg /\ chats[c].lastMessage = m

\* The request arrives; Message.findById is called.
DelStart(p, m, u) ==
    /\ Free(p)
    /\ ops' = ops + 1
    /\ h' = [h EXCEPT ![p] =
                [Idle EXCEPT !.op = "del", !.pc = "find", !.seq = ops + 1,
                             !.msgId = m, !.userId = u,
                             !.ownLast =
                                 /\ m \in MsgIds
                                 /\ messages[m].sender = u
                                 /\ \E c \in DOMAIN chats : chats[c].lastMessage = m]]
    /\ UNCHANGED <<chats, messages, nextChatId, nextMsgId, now, events, pager, tie, rooms, written, activeUsers, client>>

\* Message.findById resolves: 404, 403, or Message.deleteOne is called.
DelFind(p) ==
    /\ h[p].op = "del" /\ h[p].pc = "find"
    /\ IF h[p].msgId \notin MsgIds
       THEN h' = [h EXCEPT ![p].pc = "done", ![p].status = 404]
       ELSE IF ~MayDelete(h[p].msgId, h[p].userId)
       THEN h' = [h EXCEPT ![p].pc = "done", ![p].status = 403]
       ELSE h' = [h EXCEPT ![p].pc = "delete", ![p].doc = messages[h[p].msgId]]
    /\ UNCHANGED <<chats, messages, nextChatId, nextMsgId, now, events, ops, pager, tie, rooms, written, activeUsers, client>>

\* Message.deleteOne resolves; Chat.findById is called.
DelDelete(p) ==
    /\ h[p].op = "del" /\ h[p].pc = "delete"
    /\ messages' = IF h[p].msgId \in MsgIds THEN Removed(h[p].msgId) ELSE messages
    /\ written' = IF h[p].msgId \in MsgIds
                  THEN written \cup {Write("delete", h[p].msgId, Undefined)}
                  ELSE written
    /\ h' = [h EXCEPT ![p].pc = "findChat"]
    /\ UNCHANGED <<chats, nextChatId, nextMsgId, now, events, ops, pager, tie, rooms, activeUsers, client>>

\* Chat.findById resolves. A missing chat makes chat.lastMessage throw (500);
\* a pointer to another message leaves the chat alone: respond and broadcast.
DelFindChat(p) ==
    /\ h[p].op = "del" /\ h[p].pc = "findChat"
    /\ LET c == h[p].doc.chat
       IN  IF c \notin DOMAIN chats
           THEN /\ h' = [h EXCEPT ![p].pc = "done", ![p].status = 500]
                /\ UNCHANGED events
           ELSE IF PointsAt(c, h[p].msgId)
           THEN /\ h' = [h EXCEPT ![p].pc = "findPrev",
                            ![p].chatDoc = [id |-> c,
                                            lastMessage |-> chats[c].lastMessage,
                                            updatedAt |-> chats[c].updatedAt]]
                /\ UNCHANGED events
           ELSE /\ h' = [h EXCEPT ![p].pc = "done", ![p].status = 200,
                                  ![p].body = DeletedBody(h[p].msgId)]
                /\ events' = Emit("message-deleted", c, DeletedBody(h[p].msgId))
    /\ UNCHANGED <<chats, messages, nextChatId, nextMsgId, now, ops, pager, tie, rooms, written, activeUsers, client>>

\* Message.findOne(...).sort(...) resolves; the chat document is changed in
\* memory and chat.save is called.
DelFindPrev(p) ==
    /\ h[p].op = "del" /\ h[p].pc = "findPrev"
    /\ h' = [h EXCEPT ![p].pc = "saveChat",
                      ![p].chatDoc.lastMessage = Previous(h[p].doc.chat),
                      ![p].chatDoc.updatedAt = now]
    /\ UNCHANGED <<chats, messages, nextChatId, nextMsgId, now, events, ops, pager, tie, rooms, written, activeUsers, client>>

\* chat.save resolves: res.json, then the broadcast.
DelSaveChat(p) ==
    /\ h[p].op = "del" /\ h[p].pc = "saveChat"
    /\ chats' = [chats EXCEPT ![h[p].chatDoc.id].lastMessage = h[p].chatDoc.lastMessage,
                              ![h[p].chatDoc.id].updatedAt = h[p].chatDoc.updatedAt]
    /\ h' = [h EXCEPT ![p].pc = "done", ![p].status = 200,
                      ![p].body = DeletedBody(h[p].msgId)]
    /\ events' = Emit("message-deleted", h[p].chatDoc.id, DeletedBody(h[p].msgId))
    /\ UNCHANGED <<messages, nextChatId, nextMsgId, now, ops, pager, tie, rooms, written, activeUsers, client>>

(***************************************************************************)
(* PATCH /message/:messageId                                               *)
(***************************************************************************)
\* 15 * 60 * 1000, the edit window in milliseconds
EditWindow == 15 * 60 * 1000

\* A faulty variant, for comparison: the window is measured without the clock.
TooOldNever(createdAt) == FALSE

\* const ageMs = Date.now() - new Date(message.createdAt); ageMs > EditWindow
TooOld(createdAt) == now - createdAt > EditWindow

\* A faulty variant, for comparison: anybody may edit.
MayEditAnybody(m, u) == TRUE

\* message.sender.toString() === userId
MayEdit(m, u) == messages[m].sender = u

\* The response and event body of an edit
EditedMessage(d) ==
    [id |-> d.id, sender |-> Populated(d.sender), text |-> d.text,
     image |-> formatImage(d.image), createdAt |-> d.createdAt, edited |-> TRUE]

\* The request arrives: 400 on empty text, else Message.findById is called.
EditStart(p, m, t, u) ==
    /\ Free(p)
    /\ ops' = ops + 1
    /\ LET req == [Idle EXCEPT !.op = "edit", !.seq = ops + 1, !.msgId = m,
                               !.text = t, !.userId = u]
       IN  IF Falsy(OptTrim(t))
           THEN h' = [h EXCEPT ![p] = [req EXCEPT !.pc = "done", !.status = 400]]
           ELSE h' = [h EXCEPT ![p] = [req EXCEPT !.pc = "find"]]
    /\ UNCHANGED <<chats, messages, nextChatId, nextMsgId, now, events, pager, tie, rooms, written, activeUsers, client>>

\* Message.findById resolves: 404, 403 (not the sender), 403 (too old), or the
\* document is changed in memory and message.save is called.
EditFind(p) ==
    /\ h[p].op = "edit" /\ h[p].pc = "find"
    /\ IF h[p].msgId \notin MsgIds
       THEN h' = [h EXCEPT ![p].pc = "done", ![p].status = 404]
       ELSE IF ~MayEdit(h[p].msgId, h[p].userId)
       THEN h' = [h EXCEPT ![p].pc = "done", ![p].status = 403]
       ELSE IF TooOld(messages[h[p].msgId].createdAt)
       THEN h' = [h EXCEPT ![p].pc = "done", ![p].status = 403]
       ELSE h' = [h EXCEPT ![p].pc = "save",
                    ![p].dirty = (messages[h[p].msgId].text # Trim(h[p].text)),
                    ![p].doc = [messages[h[p].msgId] EXCEPT !.text = Trim(h[p].text)]]
    /\ UNCHANGED <<chats, messages, nextChatId, nextMsgId, now, events, ops, pager, tie, rooms, written, activeUsers, client>>

\* A faulty variant, for comparison: a save that writes the whole document
\* with a new date.
SavedWithDate(m, d) == [messages EXCEPT ![m] = [d EXCEPT !.createdAt = now]]

\* message.save() of a document whose text was set: the modified path is
\* written, nothing else.
Saved(m, d) == [messages EXCEPT ![m].text = d.text]

\* message.save resolves: the modified path is written; with nothing
\* modified nothing is sent; a document deleted meanwhile rejects (500).
EditSave(p) ==
    /\ h[p].op = "edit" /\ h[p].pc = "save"
    /\ IF ~h[p].dirty
       THEN /\ h' = [h EXCEPT ![p].pc = "populate"]
            /\ UNCHANGED <<messages, written>>
       ELSE IF h[p].msgId \in MsgIds
       THEN /\ messages' = Saved(h[p].msgId, h[p].doc)
            /\ written' = written \cup {Write("update", h[p].msgId, h[p].doc.text)}
            /\ h' = [h EXCEPT ![p].pc = "populate"]
       ELSE /\ h' = [h EXCEPT ![p].pc = "done", ![p].status = 500]
            /\ UNCHANGED <<messages, written>>
    /\ UNCHANGED <<chats, nextChatId, nextMsgId, now, events, ops, pager, tie, rooms, activeUsers, client>>

\* message.populate resolves: res.json, then the broadcast.
EditRespond(p) ==
    /\ h[p].op = "edit" /\ h[p].pc = "populate"
    /\ h' = [h EXCEPT ![p].pc = "done", ![p].status = 200,
                      ![p].body = EditedMessage(h[p].doc)]
    /\ events' = Emit("message-updated", h[p].doc.chat, EditedMessage(h[p].doc))
    /\ UNCHANGED <<chats, messages, nextChatId, nextMsgId, now, ops, pager, tie, rooms, written, activeUsers, client>>

(***************************************************************************)
(* GET /:chatId and the client that pages backward                         *)
(***************************************************************************)
Min(a, b) == IF a <= b THEN a ELSE b

\* parseInt(x) || d, with x the query value: NaN and 0 are falsy
ParsedOr(q, d) == IF q.nan \/ q.n = 0 THEN d ELSE q.n

\* Math.min(parseInt(req.query.limit) || 30, 100)
Limit(q) == Min(ParsedOr(q, 30), 100)

Reverse(s) == [i \in 1..Len(s) |-> s[Len(s) + 1 - i]]

\* One element of formattedMessages
PageItem(m) ==
    [id |-> m, sender |-> Populated(messages[m].sender), text |-> messages[m].text,
     image |-> formatImage(messages[m].image), createdAt |-> messages[m].createdAt,
     edited |-> FALSE]

\* A faulty variant, for comparison: skip counts pages, not messages.
SkipPages(page, limit) == page - 1

\* const skip = (page - 1) * limit
Skip(page, limit) == (page - 1) * limit

\* .limit(n) with a negative n: the driver asks for -n documents in a
\* single batch.
Effective(limit) == IF limit < 0 THEN 0 - limit ELSE limit

\* Message.find({ chat }).sort({ createdAt: -1 }).skip(skip).limit(limit)
Found(c, page, limit) ==
    SubSeq(NewestFirst(c), Skip(page, limit) + 1,
           Min(Skip(page, limit) + Effective(limit), Len(NewestFirst(c))))

\* The response of GET /:chatId for an existing chat
GetPage(c, page, q) ==
    [messages |-> [i \in 1..Len(Found(c, page, Limit(q))) |->
                      PageItem(Reverse(Found(c, page, Limit(q)))[i])],
     hasMore |-> Len(Found(c, page, Limit(q))) = Limit(q)]

\* GET /:chatId?limit=q for an existing chat, first page: the client keeps
\* the limit the route has used, the page and hasMore.
GetRequest(c, q) ==
    /\ c \in DOMAIN chats
    /\ pager' = [NoPager EXCEPT !.chatId = c, !.limit = Limit(q), !.page = 1,
                                !.pages = <<GetPage(c, 1, q).messages>>,
                                !.hasMore = GetPage(c, 1, q).hasMore]
    /\ UNCHANGED <<chats, messages, nextChatId, nextMsgId, now, h, events, ops, tie, rooms,
                   written, activeUsers, client>>

\* The client opens a chat with a page size.
PagerOpen(c, l) ==
    /\ pager = NoPager
    /\ c \in DOMAIN chats
    /\ pager' = [NoPager EXCEPT !.chatId = c, !.limit = l,
                                !.snapIds = IdsIn(c), !.snapNext = nextMsgId]
    /\ UNCHANGED <<chats, messages, nextChatId, nextMsgId, now, h, events, ops, tie, rooms, written, activeUsers, client>>

\* loadMessages(page + 1): the request is answered and the client keeps the
\* page and hasMore.
PagerLoad ==
    /\ pager.chatId # NoChat
    /\ pager.hasMore
    /\ pager.page <= MaxOps
    /\ LET res == GetPage(pager.chatId, pager.page + 1,
                          [nan |-> FALSE, n |-> pager.limit])
       IN  pager' = [pager EXCEPT !.page = pager.page + 1,
                                  !.pages = Append(pager.pages, res.messages),
                                  !.hasMore = res.hasMore]
    /\ UNCHANGED <<chats, messages, nextChatId, nextMsgId, now, h, events, ops, tie, rooms, written, activeUsers, client>>

(***************************************************************************)
(* Socket.IO rooms                                                         *)
(***************************************************************************)
\* socket.on('join-chat'): socket.join(chatId), whoever asks, whatever room
JoinChat(k, c) ==
    /\ rooms[k].up
    /\ rooms' = [rooms EXCEPT ![k].joined = @ \cup {c}]
    /\ UNCHANGED <<chats, messages, nextChatId, nextMsgId, now, h, events, ops, pager,
                   tie, written, activeUsers, client>>

\* socket.on('leave-chat'): socket.leave(chatId)
LeaveChat(k, c) ==
    /\ rooms[k].up
    /\ rooms' = [rooms EXCEPT ![k].joined = @ \ {c}]
    /\ UNCHANGED <<chats, messages, nextChatId, nextMsgId, now, h, events, ops, pager,
                   tie, written, activeUsers, client>>

\* A faulty variant, for comparison: a disconnect that keeps the entry.
ForgetNothing(k) == activeUsers

\* activeUsers.delete(socket.id)
Forget(k) == [x \in DOMAIN activeUsers \ {k} |-> activeUsers[x]]

\* activeUsers.set(socket.id, userId)
Remember(k, u) ==
    [x \in DOMAIN activeUsers \cup {k} |-> IF x = k THEN u ELSE activeUsers[x]]

\* The socket disconnects: Socket.IO takes it out of every room, and the
\* 'disconnect' handler takes it out of the registry.
Disconnect(k) ==
    /\ rooms[k].up
    /\ rooms' = [rooms EXCEPT ![k] = [up |-> FALSE, joined |-> {}]]
    /\ activeUsers' = Forget(k)
    /\ UNCHANGED <<chats, messages, nextChatId, nextMsgId, now, h, events, ops, pager,
                   tie, written, client>>

\* io.on('connection'): a new socket; the slot of a socket that is gone
\* stands for the new socket id.
Connect(k) ==
    /\ ~rooms[k].up
    /\ rooms' = [rooms EXCEPT ![k] = Connected]
    /\ UNCHANGED <<chats, messages, nextChatId, nextMsgId, now, h, events, ops, pager,
                   tie, written, activeUsers, client>>

\* socket.on('authenticate'): whatever user id the socket names
Authenticate(k, u) ==
    /\ rooms[k].up
    /\ activeUsers' = Remember(k, u)
    /\ UNCHANGED <<chats, messages, nextChatId, nextMsgId, now, h, events, ops, pager,
                   tie, rooms, written, client>>

(***************************************************************************)
(* The Chat component: socket listeners and the first page                 *)
(***************************************************************************)
\* The ids of a page's messages, in the page's order.
IdsOf(items) == [i \in 1..Len(items) |-> items[i].id]

\* prev.filter(m => m._id !== messageId)
RECURSIVE Without(_, _)
Without(list, m) ==
    IF list = <<>> THEN <<>>
    ELSE IF Head(list) = m THEN Without(Tail(list), m)
    ELSE <<Head(list)>> \o Without(Tail(list), m)

\* The listeners of the component applied to one event: 'message' appends,
\* 'message-deleted' filters, 'message-updated' replaces in place (the ids
\* stay), anything else is not listened to.
Listened(list, e) ==
    IF e.type = "message" THEN Append(list, e.body.id)
    ELSE IF e.type = "message-deleted" THEN Without(list, e.body.id)
    ELSE list

\* The effect of the component runs for chat c on socket k: join-chat is
\* sent (and taken as handled by the server at once), the listeners are
\* registered and loadMessages(1, true) sends its request.
ClientOpen(k, c) ==
    /\ client = NoClient
    /\ rooms[k].up
    /\ c \in DOMAIN chats
    /\ rooms' = [rooms EXCEPT ![k].joined = @ \cup {c}]
    /\ client' = [NoClient EXCEPT !.conn = k, !.fetch = "sent", !.seen = Len(events)]
    /\ UNCHANGED <<chats, messages, nextChatId, nextMsgId, now, h, events, ops, pager,
                   tie, written, activeUsers>>

\* The server answers the request for page 1 with limit=30.
ClientPageServed(c) ==
    /\ client.fetch = "sent"
    /\ client' = [client EXCEPT
                     !.fetch = "answered",
                     !.resp = IdsOf(GetPage(c, 1, [nan |-> FALSE, n |-> 30]).messages)]
    /\ UNCHANGED <<chats, messages, nextChatId, nextMsgId, now, h, events, ops, pager,
                   tie, rooms, written, activeUsers>>

\* The response arrives: setMessages(prev => reset ? newMsgs : ...).
ClientPageArrives ==
    /\ client.fetch = "answered"
    /\ client' = [client EXCEPT !.fetch = "done", !.list = client.resp]
    /\ UNCHANGED <<chats, messages, nextChatId, nextMsgId, now, h, events, ops, pager,
                   tie, rooms, written, activeUsers>>

\* The next event that was emitted reaches the component, if it was sent
\* to its socket.
ClientEventArrives ==
    /\ client.conn # 0
    /\ client.seen < Len(events)
    /\ client' = [client EXCEPT
                     !.seen = client.seen + 1,
                     !.list = IF client.conn \in events[client.seen + 1].to
                              THEN Listened(client.list, events[client.seen + 1])
                              ELSE client.list]
    /\ UNCHANGED <<chats, messages, nextChatId, nextMsgId, now, h, events, ops, pager,
                   tie, rooms, written, activeUsers>>

(***************************************************************************)
(* Time.                                                                   *)
(***************************************************************************)
MaxTime == EditWindow + MaxTicks

\* The clock advances by a millisecond or by the whole edit window; it
\* takes MaxTicks single steps at most on either side of the window.
Tick(d) ==
    /\ now + d <= MaxTime
    /\ d = 1 => now % EditWindow < MaxTicks
    /\ now' = now + d
    /\ UNCHANGED <<chats, messages, nextChatId, nextMsgId, h, events, ops, pager, tie, rooms, written, activeUsers, client>>

\* The store after create-or-get('alice', 'bob') was answered once.
InitChat ==
    /\ chats = <<[participants |-> <<"alice", "bob">>, lastMessage |-> NoMsg,
                  createdAt |-> 0, updatedAt |-> 0]>>
    /\ messages = <<>>
    /\ nextChatId = 2
    /\ nextMsgId = 1
    /\ now = 0
    /\ h = [p \in Procs |-> Idle]
    /\ events = <<>>
    /\ ops = 0
    /\ pager = NoPager
    /\ tie \in {"asc", "desc"}
    /\ rooms = [k \in Conns |-> Connected]
    /\ written = {}
    /\ activeUsers = <<>>
    /\ client = NoClient


(***************************************************************************)
(* Specifications of the message operations.                               *)
(***************************************************************************)
H == <<"h">>
PaddedH == <<" ", "h">>
LatestDone(p) == h[p].pc = "done" /\ h[p].seq = ops

\* A new request takes the first free slot.
Slot == {p \in Procs : Free(p) /\ \A q \in Procs : q < p => ~Free(q)}

\* The send requests tried on both write paths: chat 1 exists, chat 2 does
\* not; carol is in no chat; the last field says whether a png comes along.
SendInputs == {<<1, "alice", H, FALSE>>, <<2, "carol", PaddedH, TRUE>>}

\* Both write paths and deletes, handlers interleaved at their awaits.
NextSend ==
    \/ /\ ops < MaxOps
       /\ \E p \in Slot, r \in SendInputs :
             SendStart(p, r[1], r[2], r[3], IF r[4] THEN PngFile ELSE NoImage)
    \/ \E p \in Procs : SendFindChat(p)
    \/ \E p \in Procs : SendCreate(p)
    \/ \E p \in Procs : SendUpdateChat(p)
    \/ \E p \in Procs : SendRespond(p)
    \/ /\ ops < MaxOps
       /\ \E p \in Slot, r \in SendInputs :
             SockStart(p, r[1], r[2], r[3], IF r[4] THEN PngUrl ELSE NoImage)
    \/ \E p \in Procs : SockCreate(p)
    \/ \E p \in Procs : SockPopulate(p)
    \/ \E p \in Procs : SockUpdateChat(p)
    \/ /\ ops < MaxOps
       /\ \E p \in Slot : DelStart(p, 1, "alice")
    \/ \E p \in Procs : DelFind(p)
    \/ \E p \in Procs : DelDelete(p)
    \/ \E p \in Procs : DelFindChat(p)
    \/ \E p \in Procs : DelFindPrev(p)
    \/ \E p \in Procs : DelSaveChat(p)
    \/ Tick(1)

SpecSend == InitChat /\ [][NextSend]_vars

\* Sends and deletes in chat 1, each request answered before the next one
\* arrives; the clock moves between requests.
NextDelete ==
    \/ /\ Quiescent /\ ops < MaxOps + 1
       /\ \E p \in Slot : SendStart(p, 1, "alice", H, NoImage)
    \/ \E p \in Procs : SendFindChat(p)
    \/ \E p \in Procs : SendCreate(p)
    \/ \E p \in Procs : SendUpdateChat(p)
    \/ \E p \in Procs : SendRespond(p)
    \/ /\ Quiescent /\ ops < MaxOps + 1
       /\ \E p \in Slot, m \in 1..MaxOps, u \in {"alice", "bob"} : DelStart(p, m, u)
    \/ \E p \in Procs : DelFind(p)
    \/ \E p \in Procs : DelDelete(p)
    \/ \E p \in Procs : DelFindChat(p)
    \/ \E p \in Procs : DelFindPrev(p)
    \/ \E p \in Procs : DelSaveChat(p)
    \/ Quiescent /\ \E d \in {1, EditWindow} : Tick(d)

SpecDelete == InitChat /\ [][NextDelete]_vars

\* A client pages through chat 1 while sends and deletes are answered one
\* after the other.
NextPage ==
    \/ /\ Quiescent /\ ops < MaxOps
       /\ \E p \in Slot : SendStart(p, 1, "alice", H, NoImage)
    \/ \E p \in Procs : SendFindChat(p)
    \/ \E p \in Procs : SendCreate(p)
    \/ \E p \in Procs : SendUpdateChat(p)
    \/ \E p \in Procs : SendRespond(p)
    \/ /\ Quiescent /\ ops < MaxOps
       /\ \E p \in Slot, m \in 1..MaxOps : DelStart(p, m, "alice")
    \/ \E p \in Procs : DelFind(p)
    \/ \E p \in Procs : DelDelete(p)
    \/ \E p \in Procs : DelFindChat(p)
    \/ \E p \in Procs : DelFindPrev(p)
    \/ \E p \in Procs : DelSaveChat(p)
    \/ Quiescent /\ \E l \in 1..MaxLimit : PagerOpen(1, l)
    \/ Quiescent /\ PagerLoad
    \/ Quiescent /\ Tick(1)

SpecPage == InitChat /\ [][NextPage]_vars

\* The edit requests tried: a text that trims to nothing, one that trims to
\* "x" and a missing text, each from the sender and from the other
\* participant.
EditTexts == {<<" ">>, <<"x", " ">>, Undefined}

\* Sends (with a png) and edits of message 1, handlers interleaved, with
\* the clock.
NextEdit ==
    \/ /\ ops < MaxOps
       /\ \E p \in Slot : SendStart(p, 1, "alice", H, PngFile)
    \/ \E p \in Procs : SendFindChat(p)
    \/ \E p \in Procs : SendCreate(p)
    \/ \E p \in Procs : SendUpdateChat(p)
    \/ \E p \in Procs : SendRespond(p)
    \/ /\ ops < MaxOps
       /\ \E p \in Slot, t \in EditTexts, u \in {"alice", "bob"} :
             EditStart(p, 1, t, u)
    \/ \E p \in Procs : EditFind(p)
    \/ \E p \in Procs : EditSave(p)
    \/ \E p \in Procs : EditRespond(p)
    \/ \E d \in {1, EditWindow} : Tick(d)

\* A message of chat 1 is sent, edited and deleted by its sender, handlers
\* interleaved at their awaits.
NextMutate ==
    \/ /\ ops < MaxOps
       /\ \E p \in Slot : SendStart(p, 1, "alice", H, NoImage)
    \/ \E p \in Procs : SendFindChat(p)
    \/ \E p \in Procs : SendCreate(p)
    \/ \E p \in Procs : SendUpdateChat(p)
    \/ \E p \in Procs : SendRespond(p)
    \/ /\ ops < MaxOps
       /\ \E p \in Slot : EditStart(p, 1, <<"x", " ">>, "alice")
    \/ \E p \in Procs : EditFind(p)
    \/ \E p \in Procs : EditSave(p)
    \/ \E p \in Procs : EditRespond(p)
    \/ /\ ops < MaxOps
       /\ \E p \in Slot : DelStart(p, 1, "alice")
    \/ \E p \in Procs : DelFind(p)
    \/ \E p \in Procs : DelDelete(p)
    \/ \E p \in Procs : DelFindChat(p)
    \/ \E p \in Procs : DelFindPrev(p)
    \/ \E p \in Procs : DelSaveChat(p)

SpecMutate == InitChat /\ [][NextMutate]_vars

\* The send requests with which the error handling is tried: a good one, a
\* text of one space, no text at all, a chat that does not exist (with a
\* png), and a sender who is not in the chat.
WriteInputs == {<<1, "alice", H, FALSE>>, <<1, "alice", <<" ">>, FALSE>>,
                <<1, "alice", Undefined, FALSE>>, <<2, "carol", PaddedH, TRUE>>,
                <<1, "carol", H, FALSE>>}

\* Sends on both write paths and deletes, each request handled to its end
\* before the next one arrives.
NextWrite ==
    \/ /\ Quiescent /\ ops < MaxOps
       /\ \E p \in Slot, r \in WriteInputs :
             SendStart(p, r[1], r[2], r[3], IF r[4] THEN PngFile ELSE NoImage)
    \/ \E p \in Procs : SendFindChat(p)
    \/ \E p \in Procs : SendCreate(p)
    \/ \E p \in Procs : SendUpdateChat(p)
    \/ \E p \in Procs : SendRespond(p)
    \/ /\ Quiescent /\ ops < MaxOps
       /\ \E p \in Slot, r \in WriteInputs :
             SockStart(p, r[1], r[2], r[3], IF r[4] THEN PngUrl ELSE NoImage)
    \/ \E p \in Procs : SockCreate(p)
    \/ \E p \in Procs : SockPopulate(p)
    \/ \E p \in Procs : SockUpdateChat(p)
    \/ /\ Quiescent /\ ops < MaxOps
       /\ \E p \in Slot, m \in 1..MaxOps, u \in {"alice", "carol"} : DelStart(p, m, u)
    \/ \E p \in Procs : DelFind(p)
    \/ \E p \in Procs : DelDelete(p)
    \/ \E p \in Procs : DelFindChat(p)
    \/ \E p \in Procs : DelFindPrev(p)
    \/ \E p \in Procs : DelSaveChat(p)

SpecWrite == InitChat /\ [][NextWrite]_vars

\* A chat is resolved by both of its participants, and a message of it is
\* sent, edited and deleted, handlers interleaved at their awaits.
NextLife ==
    \/ /\ ops < MaxOps + 1
       /\ \E p \in Slot, r \in {<<"alice", "bob">>, <<"bob", "alice">>} :
             CogStart(p, r[1], r[2])
    \/ \E p \in Procs : CogFind(p)
    \/ \E p \in Procs : CogCreate(p)
    \/ /\ ops < MaxOps + 1
       /\ \E p \in Slot : SendStart(p, 1, "alice", H, NoImage)
    \/ \E p \in Procs : SendFindChat(p)
    \/ \E p \in Procs : SendCreate(p)
    \/ \E p \in Procs : SendUpdateChat(p)
    \/ \E p \in Procs : SendRespond(p)
    \/ /\ ops < MaxOps + 1
       /\ \E p \in Slot : EditStart(p, 1, <<"x", " ">>, "alice")
    \/ \E p \in Procs : EditFind(p)
    \/ \E p \in Procs : EditSave(p)
    \/ \E p \in Procs : EditRespond(p)
    \/ /\ ops < MaxOps + 1
       /\ \E p \in Slot : DelStart(p, 1, "alice")
    \/ \E p \in Procs : DelFind(p)
    \/ \E p \in Procs : DelDelete(p)
    \/ \E p \in Procs : DelFindChat(p)
    \/ \E p \in Procs : DelFindPrev(p)
    \/ \E p \in Procs : DelSaveChat(p)
    \/ Tick(1)

SpecLife == InitEmpty /\ [][NextLife]_vars

\* Messages with good and bad images on both write paths, each request
\* handled to its end before the next one arrives.
NextUpload ==
    \/ /\ Quiescent /\ ops < MaxOps
       /\ \E p \in Slot, f \in {PngFile, BigPngFile, BmpAsPngFile, BmpFile} :
             SendStart(p, 1, "alice", H, f)
    \/ \E p \in Procs : SendFindChat(p)
    \/ \E p \in Procs : SendCreate(p)
    \/ \E p \in Procs : SendUpdateChat(p)
    \/ \E p \in Procs : SendRespond(p)
    \/ /\ Quiescent /\ ops < MaxOps
       /\ \E p \in Slot, img \in {PngUrl, BmpUrl, BigPngUrl} :
             SocketAccepts(img) /\ SockStart(p, 1, "alice", H, img)
    \/ \E p \in Procs : SockCreate(p)
    \/ \E p \in Procs : SockPopulate(p)
    \/ \E p \in Procs : SockUpdateChat(p)

SpecUpload == InitChat /\ [][NextUpload]_vars

\* The limit parameters tried: absent or not a number, zero, negative,
\* small, the default, and above 100.
LimitParams == {[nan |-> TRUE, n |-> 0], [nan |-> FALSE, n |-> 0],
                [nan |-> FALSE, n |-> 0 - 101], [nan |-> FALSE, n |-> 0 - 1],
                [nan |-> FALSE, n |-> 1], [nan |-> FALSE, n |-> 30],
                [nan |-> FALSE, n |-> 100], [nan |-> FALSE, n |-> 101]}

\* First pages of chat 1 are requested with every limit parameter, between
\* sends that are answered one after the other.
NextLimit ==
    \/ /\ Quiescent /\ ops < MaxOps
       /\ \E p \in Slot : SendStart(p, 1, "alice", H, NoImage)
    \/ \E p \in Procs : SendFindChat(p)
    \/ \E p \in Procs : SendCreate(p)
    \/ \E p \in Procs : SendUpdateChat(p)
    \/ \E p \in Procs : SendRespond(p)
    \/ Quiescent /\ \E q \in LimitParams : GetRequest(1, q)

SpecLimit == InitChat /\ [][NextLimit]_vars

\* Sockets connect, name their user, join and leave rooms and disconnect,
\* in any order.
NextPresence ==
    \/ \E k \in Conns : Connect(k)
    \/ \E k \in Conns, u \in Users : Authenticate(k, u)
    \/ \E k \in Conns, c \in 1..2 : JoinChat(k, c)
    \/ \E k \in Conns, c \in 1..2 : LeaveChat(k, c)
    \/ \E k \in Conns : Disconnect(k)

SpecPresence == InitEmpty /\ [][NextPresence]_vars

\* Connections join and leave the room of chat 1 and disconnect while
\* messages are sent to the chat on both write paths.
NextRoom ==
    \/ /\ ops < MaxOps
       /\ \E p \in Slot : SendStart(p, 1, "alice", H, NoImage)
    \/ \E p \in Procs : SendFindChat(p)
    \/ \E p \in Procs : SendCreate(p)
    \/ \E p \in Procs : SendUpdateChat(p)
    \/ \E p \in Procs : SendRespond(p)
    \/ /\ ops < MaxOps
       /\ \E p \in Slot : SockStart(p, 1, "alice", H, NoImage)
    \/ \E p \in Procs : SockCreate(p)
    \/ \E p \in Procs : SockPopulate(p)
    \/ \E p \in Procs : SockUpdateChat(p)
    \/ \E k \in Conns : JoinChat(k, 1)
    \/ \E k \in Conns : LeaveChat(k, 1)
    \/ \E k \in Conns : Disconnect(k)

\* Sends do not sort messages: one order of ties is enough.
InitRoom == InitChat /\ tie = "asc"

SpecRoom == InitRoom /\ [][NextRoom]_vars

\* A Chat component opens chat 1 while messages are sent to it.
NextClient ==
    \/ /\ ops < MaxOps
       /\ \E p \in Slot : SendStart(p, 1, "alice", H, NoImage)
    \/ \E p \in Procs : SendFindChat(p)
    \/ \E p \in Procs : SendCreate(p)
    \/ \E p \in Procs : SendUpdateChat(p)
    \/ \E p \in Procs : SendRespond(p)
    \/ ClientOpen(1, 1)
    \/ ClientPageServed(1)
    \/ ClientPageArrives
    \/ ClientEventArrives

SpecClient == InitRoom /\ [][NextClient]_vars

\* No edit sorts messages: one order of ties is enough.
InitEdit == InitChat /\ tie = "asc"

SpecEdit == InitEdit /\ [][NextEdit]_vars

(***************************************************************************)
(* Claims about chat identity.                                             *)
(***************************************************************************)
CogAnswered(p) == h[p].op = "cog" /\ h[p].pc = "done" /\ h[p].status = 200
SamePair(p, q) == {h[p].userId, h[p].userId2} = {h[q].userId, h[q].userId2}
OneChatPerPair ==
    \A c, d \in DOMAIN chats : Members(c) = Members(d) => c = d

\* C1: with create-or-get calls made one after the other, create-or-get(A,B)
\* and create-or-get(B,A) answer with the same chat id, a repeated call
\* answers with that id again, and no pair ever has a second chat record.
C1_ResolveSymmetricIdempotent ==
    /\ \A p, q \in Procs :
          CogAnswered(p) /\ CogAnswered(q) /\ SamePair(p, q)
              => h[p].chatId = h[q].chatId
    /\ \A p \in Procs :
          CogAnswered(p) => Members(h[p].chatId) = {h[p].userId, h[p].userId2}
    /\ OneChatPerPair

\* C1 witness: (A,B) and (B,A) have both been answered, with one chat id, and
\* the store holds a single chat.
C1_Witness ==
    \E p, q \in Procs :
        /\ p # q /\ CogAnswered(p) /\ CogAnswered(q)
        /\ h[p].userId = h[q].userId2 /\ h[p].userId2 = h[q].userId
        /\ h[p].chatId = h[q].chatId
        /\ Cardinality(DOMAIN chats) = 1
        /\ ops = 3

\* C2: when create-or-get requests for one pair interleave at their awaits,
\* the pair still has at most one chat record and every such request is
\* answered 200 with that chat's id.
C2_ConcurrentResolveOneChat ==
    /\ OneChatPerPair
    /\ \A p, q \in Procs :
          /\ h[p].op = "cog" /\ h[p].pc = "done" /\ h[p].userId # h[p].userId2
          /\ h[p].userId # NoUser /\ h[p].userId2 # NoUser
          /\ CogAnswered(q) /\ SamePair(p, q)
          => h[p].status = 200 /\ h[p].chatId = h[q].chatId


(***************************************************************************)
(* Claims about the message store.                                         *)
(***************************************************************************)
\* m is a newest stored message of chat c.
IsNewest(c, m) ==
    /\ m \in IdsIn(c)
    /\ \A x \in IdsIn(c) : messages[x].createdAt <= messages[m].createdAt

\* The chat's pointer names a newest stored message, or nothing when the
\* chat is empty.
LastOk(c) ==
    IF IdsIn(c) = {} THEN chats[c].lastMessage = NoMsg
    ELSE IsNewest(c, chats[c].lastMessage)

\* C3: every stored message's chat exists and its sender is one of that
\* chat's participants, whichever write path stored it.
C3_MessagesBelongToChat ==
    \A m \in MsgIds :
        /\ messages[m].chat \in DOMAIN chats
        /\ messages[m].sender \in Members(messages[m].chat)

SameRequest(p, q) ==
    /\ h[p].chatId = h[q].chatId
    /\ h[p].userId = h[q].userId
    /\ h[p].text = h[q].text
    /\ h[p].image.has = h[q].image.has
    /\ h[p].image.contentType = h[q].image.contentType
    /\ h[p].image.big = h[q].image.big

Stored(p) == h[p].msgId # NoMsg
Broadcast(p) == h[p].body # NoBody
Shape(b) == [b EXCEPT !.id = 0, !.createdAt = 0]

\* C4: a socket 'send-message' and a POST /send-message with the same chat,
\* sender, text and image end alike: both store or both reject, the stored
\* messages have the same fields, and both broadcast an event of one shape.
C4_WritePathsAgree ==
    \A p, q \in Procs :
        /\ h[p].op = "send" /\ h[p].pc = "done"
        /\ h[q].op = "sock" /\ h[q].pc = "done"
        /\ SameRequest(p, q)
        => /\ Stored(p) = Stored(q)
           /\ Stored(p) =>
                 /\ h[p].doc.text = h[q].doc.text
                 /\ h[p].doc.image = h[q].doc.image
                 /\ h[p].doc.sender = h[q].doc.sender
           /\ Broadcast(p) = Broadcast(q)
           /\ Broadcast(p) => Shape(h[p].body) = Shape(h[q].body)

\* C5: whenever no handler is in flight, each chat's lastMessage is the
\* newest message stored for the chat, or null when it has none.
C5_LastMessageIsNewestWhenQuiescent ==
    Quiescent => \A c \in DOMAIN chats : LastOk(c)

EmptyPage == [messages |-> <<>>, hasMore |-> FALSE]
QueryLimits == {[nan |-> TRUE, n |-> 0], [nan |-> FALSE, n |-> 0],
                [nan |-> FALSE, n |-> 1], [nan |-> FALSE, n |-> 30],
                [nan |-> FALSE, n |-> 101]}

\* C6: after the sender's delete of the chat's current lastMessage, run with
\* nothing else in flight, the message is gone, the chat's lastMessage is
\* the newest remaining message or null, and every page of an emptied chat
\* is empty with hasMore false.
C6_DeleteOfLastMovesPointer ==
    \A p \in Procs :
        LatestDone(p) /\ h[p].op = "del" /\ h[p].ownLast
        => /\ h[p].status = 200
           /\ h[p].msgId \notin MsgIds
           /\ LastOk(h[p].doc.chat)
           /\ IdsIn(h[p].doc.chat) = {} =>
                 \A k \in 1..2, q \in QueryLimits :
                     GetPage(h[p].doc.chat, k, q) = EmptyPage

\* C6 witness: the delete left two messages of different age behind and the
\* pointer names the newer one.
C6_Witness ==
    \E p \in Procs :
        /\ LatestDone(p) /\ h[p].op = "del" /\ h[p].ownLast /\ h[p].status = 200
        /\ Cardinality(IdsIn(1)) = 2
        /\ \E a, b \in IdsIn(1) :
              /\ messages[a].createdAt < messages[b].createdAt
              /\ chats[1].lastMessage = b

RECURSIVE Concat(_)
\* The client's list: each older page goes in front of what it holds.
Concat(pages) ==
    IF pages = <<>> THEN <<>>
    ELSE pages[Len(pages)] \o Concat(SubSeq(pages, 1, Len(pages) - 1))

\* Nothing was stored in or deleted from the chat since the client opened it.
Static ==
    /\ pager.chatId # NoChat
    /\ IdsIn(pager.chatId) = pager.snapIds
    /\ nextMsgId = pager.snapNext

\* C7: over a chat of N messages that does not change, paging with size L
\* ends within N \div L + 1 requests, and the pages put together, older pages
\* first, are the N messages, each once, in order of createdAt.
C7_PagingYieldsAllInOrder ==
    Static =>
        LET n == Cardinality(IdsIn(pager.chatId))
            acc == Concat(pager.pages)
        IN  /\ pager.page <= (n \div pager.limit) + 1
            /\ pager.page = (n \div pager.limit) + 1 => ~pager.hasMore
            /\ ~pager.hasMore =>
                  /\ pager.page >= 1
                  /\ Len(acc) = n
                  /\ {acc[i].id : i \in 1..Len(acc)} = IdsIn(pager.chatId)
                  /\ \A i, j \in 1..Len(acc) :
                        i < j => acc[i].createdAt <= acc[j].createdAt
                  /\ \A i \in 1..Len(acc) : acc[i] = PageItem(acc[i].id)

\* C7 witness: two messages of different age, page size 2: a full first page,
\* an empty second page, and paging has ended.
C7_Witness ==
    /\ Static
    /\ pager.limit = 2 /\ pager.page = 2 /\ ~pager.hasMore
    /\ Len(pager.pages[1]) = 2
    /\ pager.pages[1][1].createdAt < pager.pages[1][2].createdAt

\* C8: every page after the first holds only messages older than the oldest
\* message of the page before it, and no message comes back a second time,
\* also when messages are created or deleted between two requests.
C8_LaterPagesAreOlder ==
    \A k \in 2..Len(pager.pages) :
        \A i \in 1..Len(pager.pages[k]) :
            /\ \A j \in 1..(k - 1) : \A x \in 1..Len(pager.pages[j]) :
                  pager.pages[j][x].id # pager.pages[k][i].id
            /\ pager.pages[k - 1] # <<>> =>
                  pager.pages[k][i].createdAt <= pager.pages[k - 1][1].createdAt

(***************************************************************************)
(* Claims about editing.                                                   *)
(***************************************************************************)
\* Slot p answers its request in this step.
Responds(p) == h'[p] # h[p] /\ h'[p].pc = "done"

\* An edit request by somebody else than the stored message's sender is
\* answered in this step.
NonSenderEditAnswered(p) ==
    /\ Responds(p)
    /\ h'[p].op = "edit"
    /\ h'[p].msgId \in MsgIds
    /\ messages[h'[p].msgId].sender # h'[p].userId

\* C9 as claimed: an edit request by a non-sender is answered 403 whatever
\* the message's age and the new text, the stored messages stay as they are
\* and no event is emitted.
C9_NonSenderEditForbidden ==
    [][\A p \in Procs :
          NonSenderEditAnswered(p)
          => h'[p].status = 403 /\ messages' = messages /\ events' = events]_vars

\* C9 as amended: an edit request by a non-sender leaves the stored messages
\* as they are and emits no event; it is answered 403 whatever the message's
\* age when its text is non-empty after trimming, and 400 when it is empty.
C9_NonSenderEditRejected ==
    [][\A p \in Procs :
          NonSenderEditAnswered(p)
          => /\ messages' = messages
             /\ events' = events
             /\ h'[p].status = IF Falsy(OptTrim(h'[p].text)) THEN 400 ELSE 403]_vars

\* C9 witness: a non-sender's edit with a non-empty text was answered 403 for
\* a message older than the window.
C9_Witness ==
    \E p \in Procs :
        /\ LatestDone(p) /\ h[p].op = "edit" /\ h[p].status = 403
        /\ h[p].msgId \in MsgIds
        /\ messages[h[p].msgId].sender # h[p].userId
        /\ ~Falsy(OptTrim(h[p].text))
        /\ now - messages[h[p].msgId].createdAt > EditWindow

\* The sender's edit request, text non-empty after trimming, arrives.
SenderEditArrives(p) ==
    /\ Free(p) /\ h'[p] # h[p] /\ h'[p].op = "edit"
    /\ ~Falsy(OptTrim(h'[p].text))

\* Message.findById of an edit request by the stored message's sender resolves.
SenderEditDecided(p) ==
    /\ h[p].op = "edit" /\ h[p].pc = "find" /\ h'[p] # h[p]
    /\ h[p].msgId \in MsgIds
    /\ messages[h[p].msgId].sender = h[p].userId

\* C10: the sender's edit with non-empty text goes through when the message
\* is at most 15 minutes old (the text is saved and the answer is 200) and is
\* answered 403 with the text unchanged when it is older; createdAt never
\* changes, so an earlier edit does not extend the window.
C10_EditWindow ==
    [][/\ \A p \in Procs : SenderEditArrives(p) => h'[p].pc = "find"
       /\ \A p \in Procs :
             SenderEditDecided(p) =>
                IF now - messages[h[p].msgId].createdAt <= 15 * 60 * 1000
                THEN h'[p].pc = "save" /\ h'[p].doc.text = Trim(h[p].text)
                ELSE h'[p].pc = "done" /\ h'[p].status = 403 /\ messages' = messages
       /\ \A p \in Procs :
             h[p].op = "edit" /\ h[p].pc = "save" /\ h'[p] # h[p]
             /\ h[p].msgId \in MsgIds
             => h'[p].pc = "populate" /\ messages'[h[p].msgId].text = h[p].doc.text
       /\ \A p \in Procs :
             h[p].op = "edit" /\ h[p].pc = "populate" /\ h'[p] # h[p]
             => h'[p].pc = "done" /\ h'[p].status = 200
       /\ \A m \in MsgIds :
             m \in DOMAIN messages' => messages'[m].createdAt = messages[m].createdAt
      ]_vars

\* C10 witness: message 1 was edited with success, and a later edit by its
\* sender was answered 403.
C10_Witness ==
    \E p \in Procs :
        /\ LatestDone(p) /\ h[p].op = "edit" /\ h[p].status = 403
        /\ h[p].msgId \in MsgIds
        /\ messages[h[p].msgId].sender = h[p].userId
        /\ \E i \in 1..Len(events) :
              events[i].type = "message-updated" /\ events[i].body.id = h[p].msgId

\* C11: once an edit of a message was answered with success, a page request
\* that returns the message reports it as edited.
C11_EditedIsReported ==
    \A i \in 1..Len(events) :
        events[i].type = "message-updated" /\ events[i].body.id \in MsgIds
        => PageItem(events[i].body.id).edited

(***************************************************************************)
(* Claims about deleting.                                                  *)
(***************************************************************************)
\* Message.findById of a delete request for a stored message resolves.
DeleteDecided(p) ==
    /\ h[p].op = "del" /\ h[p].pc = "find" /\ h'[p] # h[p]
    /\ h[p].msgId \in MsgIds

\* C12: a delete request by the stored message's sender goes on to remove the
\* message whatever its age; a delete request by anybody else is answered 403
\* and leaves the messages, the chats (lastMessage) and the events as they
\* are; a message leaves the store only through a request of its sender, and
\* only such a request is answered with success.
C12_OnlySenderDeletes ==
    [][/\ \A p \in Procs :
             DeleteDecided(p) =>
                IF messages[h[p].msgId].sender = h[p].userId
                THEN h'[p].pc = "delete"
                ELSE /\ h'[p].pc = "done" /\ h'[p].status = 403
                     /\ messages' = messages /\ chats' = chats /\ events' = events
       /\ \A m \in MsgIds \ DOMAIN messages' :
             \E p \in Procs : /\ h[p].op = "del" /\ h[p].msgId = m
                               /\ h[p].userId = messages[m].sender
       /\ \A p \in Procs :
             Responds(p) /\ h'[p].op = "del" /\ h'[p].status = 200
             => h'[p].doc.sender = h'[p].userId
      ]_vars

\* C12 witness: a message was deleted by its sender, and after that somebody
\* else's delete request for a stored message older than the edit window was
\* answered 403.
C12_Witness ==
    \E p \in Procs :
        /\ LatestDone(p) /\ h[p].op = "del" /\ h[p].status = 403
        /\ h[p].msgId \in MsgIds
        /\ messages[h[p].msgId].sender # h[p].userId
        /\ now - messages[h[p].msgId].createdAt > EditWindow
        /\ \E i \in 1..Len(events) : events[i].type = "message-deleted"

(***************************************************************************)
(* Claims about the broadcast.                                             *)
(***************************************************************************)
\* The handler in slot p, which has stored a message, ends in this step.
CreationEnds(p) ==
    /\ Responds(p)
    /\ h[p].op \in {"send", "sock"}
    /\ h[p].msgId # NoMsg

\* C13: when a handler that stored a message ends, it emits one 'message'
\* event for that message to exactly the connections that are connected and
\* in the chat's room at that moment, and no other step emits a 'message'
\* event.
C13_OneMessageEventToRoom ==
    [][/\ \A p \in Procs :
             CreationEnds(p) =>
                /\ Len(events') = Len(events) + 1
                /\ events'[Len(events')].type = "message"
                /\ events'[Len(events')].body.id = h[p].msgId
                /\ events'[Len(events')].to =
                       {k \in Conns : rooms[k].up /\ h[p].chatId \in rooms[k].joined}
       /\ (events' # events /\ events'[Len(events')].type = "message")
             => \E p \in Procs : CreationEnds(p)
      ]_vars

\* C14: the 'message' events of one chat are emitted in the order in which
\* their messages were persisted, which is the order of the ids the store
\* gave them.
C14_MessageEventsInPersistOrder ==
    \A i, j \in 1..Len(events) :
        /\ i < j
        /\ events[i].type = "message" /\ events[j].type = "message"
        /\ events[i].room = events[j].room
        => events[i].body.id < events[j].body.id

\* C15: a 'message-updated' or 'message-deleted' event for a message comes
\* after the 'message' event that announced the message.
C15_CreateEventFirst ==
    \A i \in 1..Len(events) :
        events[i].type \in {"message-updated", "message-deleted"}
        => \E j \in 1..(i - 1) :
              events[j].type = "message" /\ events[j].body.id = events[i].body.id

\* An event is emitted in this step.
Emitted == Len(events') = Len(events) + 1
LastEvent == events'[Len(events')]

\* C16 as claimed: at the moment a 'message' or 'message-updated' event is
\* emitted the message with that text is in the store, and at the moment a
\* 'message-deleted' event is emitted the message is not in the store.
C16_StoreMatchesEventAtEmit ==
    [][Emitted =>
          /\ LastEvent.type \in {"message", "message-updated"}
                => /\ LastEvent.body.id \in DOMAIN messages'
                   /\ messages'[LastEvent.body.id].text = LastEvent.body.text
          /\ LastEvent.type = "message-deleted"
                => LastEvent.body.id \notin DOMAIN messages'
      ]_vars

\* C16 as amended: every event follows the write it reports. The store has
\* created the message of a 'message' event with the event's text, has
\* written the text of a 'message-updated' event to its message, and has
\* removed the message of a 'message-deleted' event, which is not stored.
C16_EventFollowsWrite ==
    \A i \in 1..Len(events) :
        /\ events[i].type = "message"
              => Write("create", events[i].body.id, events[i].body.text) \in written
        /\ events[i].type = "message-updated"
              => \E k \in {"create", "update"} :
                    Write(k, events[i].body.id, events[i].body.text) \in written
        /\ events[i].type = "message-deleted"
              => /\ Write("delete", events[i].body.id, Undefined) \in written
                 /\ events[i].body.id \notin MsgIds

\* C16 witness: the creation, an edit and the removal of one message have
\* been broadcast, the creation after the message was removed.
C16_Witness ==
    \E i, j, k \in 1..Len(events) :
        /\ j < i
        /\ events[i].type = "message"
        /\ events[j].type = "message-deleted"
        /\ events[k].type = "message-updated"
        /\ events[i].body.id = events[j].body.id
        /\ events[i].body.id = events[k].body.id

(***************************************************************************)
(* Claims about failures of the write paths.                               *)
(***************************************************************************)
\* C17: when the request answered last ended with a 5xx status, nothing of
\* its write is applied: a send has stored no message, and the message a
\* delete had found is still stored.
C17_FailedWriteAppliesNothing ==
    \A p \in Procs :
        LatestDone(p) /\ h[p].status >= 500 =>
            /\ h[p].op = "send" => h[p].msgId = NoMsg
            /\ h[p].op = "del" /\ h[p].doc # NoDoc => h[p].msgId \in MsgIds

\* C18: when a handler that stored a message ends without having emitted
\* the 'message' event, the message is still stored, the chat still points
\* at it, and the requester holds the success result with the message.
C18_BroadcastFailureKeepsWrite ==
    [][\A p \in Procs :
          CreationEnds(p) /\ ~(Emitted /\ LastEvent.type = "message") =>
              /\ h[p].msgId \in DOMAIN messages'
              /\ h[p].chatId \in DOMAIN chats'
                    => chats'[h[p].chatId].lastMessage = h[p].msgId
              /\ h'[p].body # NoBody
      ]_vars

\* C19: a creation request for a chat that does not exist is answered 404,
\* one by a sender who is not in the chat is answered 403, and neither
\* stores a message.
C19_CreationChecksChatAndSender ==
    \A p \in Procs :
        /\ h[p].pc = "done" /\ h[p].op \in {"send", "sock"}
        /\ h[p].chatId # NoChat /\ h[p].userId # NoUser
        => /\ h[p].chatId \notin DOMAIN chats
                 => h[p].status = 404 /\ h[p].msgId = NoMsg
           /\ h[p].chatId \in DOMAIN chats /\ ~IsParticipant(h[p].chatId, h[p].userId)
                 => h[p].status = 403 /\ h[p].msgId = NoMsg

\* C20: a creation request with no image and a text that is missing or
\* empty after trimming is answered 400 and stores nothing, and every stored
\* message has an image or a text that is not empty.
C20_NeitherTextNorImageRejected ==
    /\ \A p \in Procs :
          /\ h[p].pc = "done" /\ h[p].op \in {"send", "sock"}
          /\ Falsy(OptTrim(h[p].text)) /\ ~h[p].image.has
          => h[p].status = 400 /\ h[p].msgId = NoMsg
    /\ \A m \in MsgIds : messages[m].image.has \/ ~Falsy(messages[m].text)

(***************************************************************************)
(* Claims about rejected requests.                                         *)
(***************************************************************************)
\* An edit request whose text is missing or empty after trimming arrives.
EmptyEditArrives(p) ==
    /\ Free(p) /\ h'[p] # h[p] /\ h'[p].op = "edit"
    /\ \/ h'[p].text = Undefined
       \/ \A i \in 1..Len(h'[p].text) : h'[p].text[i] = " "

\* C21: an edit request whose text is missing or empty after trimming is
\* answered 400 at once, whoever sends it and whatever the message's age,
\* and changes neither the stored messages nor the events.
C21_EmptyEditRejected ==
    [][\A p \in Procs :
          EmptyEditArrives(p)
          => /\ h'[p].pc = "done" /\ h'[p].status = 400
             /\ messages' = messages /\ events' = events]_vars

\* C21 witness: the sender's edit of a stored message within the window was
\* answered 400 for a text of spaces.
C21_Witness ==
    \E p \in Procs :
        /\ LatestDone(p) /\ h[p].op = "edit" /\ h[p].status = 400
        /\ h[p].text = <<" ">>
        /\ h[p].msgId \in MsgIds
        /\ messages[h[p].msgId].sender = h[p].userId
        /\ now - messages[h[p].msgId].createdAt <= EditWindow

\* A create-or-get request with a missing id or two equal ids arrives.
BadPairArrives(p) ==
    /\ Free(p) /\ h'[p] # h[p] /\ h'[p].op = "cog"
    /\ \/ h'[p].userId = NoUser \/ h'[p].userId2 = NoUser
       \/ h'[p].userId = h'[p].userId2

\* C22: a create-or-get request with a missing id or with two equal ids is
\* answered 400 at once, and no handler of such a request ever creates a
\* chat.
C22_BadPairRejected ==
    [][/\ \A p \in Procs :
             BadPairArrives(p) => h'[p].pc = "done" /\ h'[p].status = 400
       /\ \A p \in Procs :
             /\ h[p].op = "cog"
             /\ h[p].userId = NoUser \/ h[p].userId2 = NoUser
                \/ h[p].userId = h[p].userId2
             /\ h'[p] # h[p] /\ ~Free(p)
             => chats' = chats
      ]_vars

\* C22 witness: create-or-get('alice', 'alice') was answered 400 while a chat
\* of alice exists.
C22_Witness ==
    \E p \in Procs :
        /\ LatestDone(p) /\ h[p].op = "cog" /\ h[p].status = 400
        /\ h[p].userId = "alice" /\ h[p].userId2 = "alice"
        /\ \E c \in DOMAIN chats : "alice" \in Members(c)

(***************************************************************************)
(* Claims about what operations leave alone.                               *)
(***************************************************************************)
\* C23: after every step of create-or-get, send, edit and delete handlers
\* every stored chat has exactly two participants, and they are distinct;
\* no step changes the participants of a chat or removes a chat.
C23_ChatsKeepTwoParticipants ==
    [][/\ \A c \in DOMAIN chats' :
             /\ Len(chats'[c].participants) = 2
             /\ chats'[c].participants[1] # chats'[c].participants[2]
       /\ \A c \in DOMAIN chats :
             /\ c \in DOMAIN chats'
             /\ chats'[c].participants = chats[c].participants
      ]_vars

\* C23 witness: a chat was created, a message was sent to it and deleted
\* again, and the chat has its two participants.
C23_Witness ==
    /\ Quiescent
    /\ \E c \in DOMAIN chats : chats[c].participants = <<"alice", "bob">>
    /\ \E i, j \in 1..Len(events) :
          /\ events[i].type = "message" /\ events[j].type = "message-deleted"
          /\ events[i].body.id = events[j].body.id

(***************************************************************************)
(* Claims about the content of messages.                                   *)
(***************************************************************************)
\* C24: a message stored by a send request, on either write path, has the
\* text 'Photo' when the request came with an image and no text, and the
\* request's trimmed text otherwise.
C24_PlaceholderOrTrimmedText ==
    \A p \in Procs :
        /\ h[p].op \in {"send", "sock"}
        /\ h[p].msgId \in MsgIds
        => messages[h[p].msgId].text =
              IF h[p].image.has /\ Falsy(h[p].text) THEN Photo ELSE Trim(h[p].text)

\* The image is above 5 MB or its content type is not jpeg, png, gif or webp.
BadImage(img) == img.has /\ (img.big \/ img.contentType \notin MimeEnum)

C26_LimitWithinBounds ==
    pager.chatId # NoChat
    => /\ pager.limit \in 1..100
       /\ \A i \in 1..Len(pager.pages) : Len(pager.pages[i]) <= pager.limit

(***************************************************************************)
(* Claims about the presence registry.                                     *)
(***************************************************************************)
\* C27: the registry holds entries of connected sockets only, each with the
\* user id its socket has named.
C27_RegistryOfConnectedSockets ==
    \A k \in DOMAIN activeUsers : rooms[k].up /\ activeUsers[k] \in Users

\* C27 witness: one socket is connected and registered while another one
\* has disconnected and has no entry.
C27_Witness ==
    \E k, j \in Conns :
        /\ k \in DOMAIN activeUsers /\ rooms[k].up
        /\ ~rooms[j].up /\ j \notin DOMAIN activeUsers

(***************************************************************************)
(* Claims about the client's view.                                         *)
(***************************************************************************)
\* Every response and every event has been delivered.
Settled ==
    /\ Quiescent
    /\ client.fetch = "done"
    /\ client.seen = Len(events)

\* C28: once every response and event has been delivered, the list of a
\* client that joined the room and loaded page 1 while messages were sent
\* holds no message twice and holds every stored message of the chat.
C28_ClientListMatchesTimeline ==
    Settled
    => /\ \A i, j \in 1..Len(client.list) :
             client.list[i] = client.list[j] => i = j
       /\ \A m \in IdsIn(1) : \E i \in 1..Len(client.list) : client.list[i] = m

\* C29: a delete request for a message that is not the lastMessage of its
\* chat, run with nothing else in flight, leaves every chat as it is
\* (lastMessage and updatedAt) and every other message as it is.
C29_DeleteOfOtherKeepsChat ==
    [][\A p \in Procs :
          /\ h[p].op = "del" /\ h'[p] # h[p]
          /\ \A c \in DOMAIN chats : chats[c].lastMessage # h[p].msgId
          => /\ chats' = chats
             /\ \A m \in MsgIds \ {h[p].msgId} :
                   m \in DOMAIN messages' /\ messages'[m] = messages[m]
      ]_vars

\* C29 witness: with a later clock, the sender's delete of a message that
\* was not the chat's lastMessage was answered 200; the pointer names a
\* stored message and updatedAt is older than the clock.
C29_Witness ==
    \E p \in Procs :
        /\ LatestDone(p) /\ h[p].op = "del" /\ h[p].status = 200 /\ ~h[p].ownLast
        /\ h[p].doc.chat \in DOMAIN chats
        /\ chats[h[p].doc.chat].lastMessage \in MsgIds
        /\ chats[h[p].doc.chat].updatedAt < now

\* C30: a step of an edit handler leaves every chat as it is and changes
\* nothing of a stored message but its text; the answer of a successful
\* edit carries the stored sender, image and createdAt.
C30_EditChangesTextOnly ==
    [][\A p \in Procs :
          h[p].op = "edit" /\ ~Free(p) /\ h'[p] # h[p]
          => /\ chats' = chats
             /\ \A m \in MsgIds :
                   /\ m \in DOMAIN messages'
                   /\ messages'[m] = [messages[m] EXCEPT !.text = messages'[m].text]
             /\ h'[p].status = 200 /\ h[p].msgId \in MsgIds
                   => /\ h'[p].body.sender = messages[h[p].msgId].sender
                      /\ h'[p].body.image = formatImage(messages[h[p].msgId].image)
                      /\ h'[p].body.createdAt = messages[h[p].msgId].createdAt
      ]_vars

\* C30 witness: an edit of a message with an image, sent earlier than now,
\* was answered 200; the message has the new text and is the chat's
\* lastMessage.
C30_Witness ==
    \E p \in Procs :
        /\ LatestDone(p) /\ h[p].op = "edit" /\ h[p].status = 200
        /\ h[p].msgId \in MsgIds
        /\ messages[h[p].msgId].text = <<"x">>
        /\ messages[h[p].msgId].image.has
        /\ messages[h[p].msgId].createdAt < now
        /\ chats[1].lastMessage = h[p].msgId

=============================================================================
